---- MODULE Spec2Model ----
(***************************************************************************)
(* BlitzForge: the candidate generators (core/generator.rs), the hash      *)
(* dispatch (core/hasher.rs), the target model (core/target.rs) and the    *)
(* search engine (core/engine.rs), as one state machine.                   *)
(*                                                                         *)
(* Bytes are natural numbers (97 = 'a'), byte strings are sequences of     *)
(* bytes, Rust's 0-based indices are kept 0-based (a TLA+ sequence s is    *)
(* read at s[idx + 1]).                                                    *)
(***************************************************************************)
EXTENDS Integers, Sequences, FiniteSets, TLC

VARIABLES
    gen,        \* the generator object (Box<dyn Generator>)
    ret,        \* what the last next_batch call returned
    produced,   \* candidates returned since construction / the last reset
    orig,       \* the longest traversal seen before a reset
    sawNone,    \* next_batch has returned None since construction / reset
    atNone,     \* Len(produced) when None was first returned, else -1
    gpanic,     \* a next_batch call panicked (index out of bounds)
    lastSize,   \* the size the last next_batch call asked for, 0 if none
                \* since construction / the last reset
    hcase,      \* a hasher applied to one (password, salt) pair
    call,       \* a constructor or pure function applied to one input
    cli,        \* run_cracking: its arguments, where it is, what it holds
    csv,        \* the benchmark log file and the BenchmarkLogger on it
    targets,    \* Engine.targets
    workers,    \* Engine.workers
    batch_size, \* Engine.batch_size
    stats,      \* Engine.stats, the value guarded by the mutex
    lock,       \* holder of the stats mutex: 0 free, -1 the driver, i > 0
                \* the worker hashing candidate i of the batch
    pc,         \* where the driver is in Engine::run
    runs,       \* calls of run started on this engine
    found_ids,  \* run: found_ids
    matches,    \* run: matches
    order,      \* run: iteration order of targets_by_algo (the keys)
    bi,         \* run: buckets of `order` already visited for this batch
    batch,      \* run: the batch being processed
    tk,         \* parallel region: targets candidate i has been probed against
    local,      \* parallel region: local_matches of candidate i
    result,     \* the CrackingResult the last finished run returned
    consumed,   \* candidates the generator returned during this run
    nbCalls,    \* next_batch calls of this run
    lateCall,   \* next_batch was called with every target id in found_ids
    active,     \* buckets hashed (not skipped) for the current batch
    hashesBefore, \* stats.hashes_computed before the last statistics update
    observed,   \* the snapshots the observer callback received in this run
    gen0,       \* run: the generator as it was when run was entered
    events,     \* run: what the driver has done, in order
    hashedFound \* run: a digest was computed for a target whose id was
                \* in found_ids

gvars == <<gen, ret, produced, orig, sawNone, atNone, gpanic, lastSize>>

\* the variables of the other components
ovars == <<hcase, call, cli, csv>>

ghosts == <<ret, orig, sawNone, atNone, lastSize, ovars>>

evars == <<targets, workers, batch_size, stats, lock, pc, runs, found_ids,
           matches, order, bi, batch, tk, local, result, consumed, nbCalls,
           lateCall, active, hashesBefore, observed, gen0, events,
           hashedFound>>

vars == <<gen, ret, produced, orig, sawNone, atNone, gpanic, lastSize, hcase,
          call, cli, csv, hashedFound, targets, workers, batch_size, stats, lock, pc, runs, found_ids,
          matches, order, bi, batch, tk, local, result, consumed, nbCalls,
          lateCall, active, hashesBefore, observed, gen0, events>>

----------------------------------------------------------------------------
(* Bounds of the model *)

MaxSize == 2        \* batch sizes requested: 1..MaxSize
MaxLen == 2         \* brute force: min_length, max_length in 0..MaxLen
MaxCharset == 2     \* brute force: charset strings of length 0..MaxCharset
MaxLines == 2       \* dictionary: files of 0..MaxLines lines
MaxMaskLen == 3     \* mask: pattern strings of 0..MaxMaskLen characters
MaxWorkers == 2     \* engine: workers in 1..MaxWorkers
MaxRuns == 2        \* engine: calls of run on one Engine

----------------------------------------------------------------------------
(* Helpers on sequences *)

SeqsUpTo(S, n) == UNION {[1..k -> S] : k \in 0..n}

RECURSIVE Flatten(_)
Flatten(ss) == IF ss = <<>> THEN <<>> ELSE Head(ss) \o Flatten(Tail(ss))

RECURSIVE SeqProduct(_)
SeqProduct(s) == IF s = <<>> THEN 1 ELSE Head(s) * SeqProduct(Tail(s))

RECURSIVE Pow(_, _)
Pow(b, e) == IF e = 0 THEN 1 ELSE b * Pow(b, e - 1)

----------------------------------------------------------------------------
(* Option<Vec<Vec<u8>>> *)

None == [some |-> FALSE, batch |-> <<>>]
Some(b) == [some |-> TRUE, batch |-> b]

\* if batch.is_empty() { None } else { Some(batch) }
BatchOrNone(acc) == IF acc = <<>> THEN None ELSE Some(acc)

\* a generator object: every kind carries the same fields, the unused ones
\* at their defaults
BlankGen ==
    [kind |-> "none", file |-> <<>>, pos |-> 0, pattern |-> <<>>,
     charset |-> <<>>, min_length |-> 0, max_length |-> 0,
     current_length |-> 0, current |-> <<>>, exhausted |-> FALSE]

Zeros(n) == [i \in 1..n |-> 0]

----------------------------------------------------------------------------
(* DictionaryGenerator *)

\* char::is_whitespace on the bytes a wordlist line can hold
WhiteSpace == {9, 10, 11, 12, 13, 32}

\* a line holding a byte that is not valid UTF-8: read_line returns Err
\* (the bytes of the line are consumed all the same)
InvalidUtf8(line) == \E i \in 1..Len(line) : line[i] >= 128

RECURSIVE TrimStart(_)
TrimStart(s) ==
    IF s # <<>> /\ Head(s) \in WhiteSpace THEN TrimStart(Tail(s)) ELSE s

RECURSIVE TrimEnd(_)
TrimEnd(s) ==
    IF s # <<>> /\ s[Len(s)] \in WhiteSpace
    THEN TrimEnd(SubSeq(s, 1, Len(s) - 1)) ELSE s

\* str::trim
Trim(s) == TrimEnd(TrimStart(s))

\* DictionaryGenerator::new: the reader is at offset zero of the file.  The
\* file is the sequence of its lines (each without its line terminator,
\* which trim removes with the other whitespace); pos lines have been read.
DictionaryNew(file) ==
    [BlankGen EXCEPT !.kind = "dict", !.file = file, !.pos = 0]

\* the body of `for _ in 0..size`: n iterations are left
RECURSIVE DictLoop(_, _, _, _)
DictLoop(file, pos, n, acc) ==
    IF n = 0 THEN [pos |-> pos, batch |-> acc]
    ELSE IF pos >= Len(file) THEN [pos |-> pos, batch |-> acc]  \* Ok(0) => break
    ELSE IF InvalidUtf8(file[pos + 1])
         THEN [pos |-> pos + 1, batch |-> acc]                  \* Err(_) => break
    ELSE LET trimmed == Trim(file[pos + 1])
         IN  DictLoop(file, pos + 1, n - 1,
                      IF trimmed # <<>> THEN Append(acc, trimmed) ELSE acc)

DictNextBatch(g, size) ==
    LET r == DictLoop(g.file, g.pos, size, <<>>)
    IN  [gen |-> [g EXCEPT !.pos = r.pos], ret |-> BatchOrNone(r.batch),
         panic |-> FALSE]

\* reset: File::open succeeds on the unchanged file, the reader restarts
DictReset(g) == [g EXCEPT !.pos = 0]

----------------------------------------------------------------------------
(* CharSet and MaskGenerator *)

Lowercase == [i \in 1..26 |-> 96 + i]
Uppercase == [i \in 1..26 |-> 64 + i]
Digits == [i \in 1..10 |-> 47 + i]
Special == <<33, 64, 35, 36, 37, 94, 38, 42, 40, 41, 95, 43, 45, 61, 91, 93,
             123, 125, 124, 59, 58, 44, 46, 60, 62, 63>>

\* `chars[i] as u8` for the characters mask strings are built from
CharByte(c) ==
    CASE c = "?" -> 63
      [] c = "a" -> 97
      [] c = "d" -> 100
      [] c = "l" -> 108
      [] c = "s" -> 115
      [] c = "u" -> 117
      [] OTHER -> 120

ClassLetters == {"l", "u", "d", "s"}

ClassCharSet(c) ==
    CASE c = "l" -> Lowercase
      [] c = "u" -> Uppercase
      [] c = "d" -> Digits
      [] OTHER -> Special

\* the while loop of MaskGenerator::new, i 0-based
RECURSIVE MaskParse(_, _, _)
MaskParse(chars, i, pattern) ==
    IF i >= Len(chars) THEN [ok |-> TRUE, pattern |-> pattern]
    ELSE IF chars[i + 1] = "?" /\ i + 1 < Len(chars)
         THEN IF chars[i + 2] \in ClassLetters
              THEN MaskParse(chars, i + 2,
                             Append(pattern, ClassCharSet(chars[i + 2])))
              ELSE [ok |-> FALSE, pattern |-> <<>>]
    ELSE MaskParse(chars, i + 1, Append(pattern, <<CharByte(chars[i + 1])>>))

MaskNew(mask) ==
    LET p == MaskParse(mask, 0, <<>>)
    IN  [ok |-> p.ok,
         gen |-> [BlankGen EXCEPT !.kind = "mask", !.pattern = p.pattern,
                                  !.current = Zeros(Len(p.pattern)),
                                  !.exhausted = FALSE]]

\* MaskGenerator::increment, position i (1-based) downwards; 0: fell off
RECURSIVE MaskIncFrom(_, _, _)
MaskIncFrom(pattern, cur, i) ==
    IF i = 0 THEN [current |-> cur, exhausted |-> TRUE]
    ELSE IF cur[i] + 1 < Len(pattern[i])
         THEN [current |-> [cur EXCEPT ![i] = cur[i] + 1], exhausted |-> FALSE]
    ELSE MaskIncFrom(pattern, [cur EXCEPT ![i] = 0], i - 1)

\* mutant: the odometer turns its leftmost wheel first
RECURSIVE MaskIncFromLeft(_, _, _)
MaskIncFromLeft(pattern, cur, i) ==
    IF i > Len(cur) THEN [current |-> cur, exhausted |-> TRUE]
    ELSE IF cur[i] + 1 < Len(pattern[i])
         THEN [current |-> [cur EXCEPT ![i] = cur[i] + 1], exhausted |-> FALSE]
    ELSE MaskIncFromLeft(pattern, [cur EXCEPT ![i] = 0], i + 1)

MaskIncrementLeft(g) ==
    LET r == MaskIncFromLeft(g.pattern, g.current, 1)
    IN  [g EXCEPT !.current = r.current,
                  !.exhausted = g.exhausted \/ r.exhausted]

MaskIncrement(g) ==
    LET r == MaskIncFrom(g.pattern, g.current, Len(g.current))
    IN  [g EXCEPT !.current = r.current,
                  !.exhausted = g.exhausted \/ r.exhausted]

MaskCandidate(g) ==
    [i \in 1..Len(g.pattern) |-> g.pattern[i][g.current[i] + 1]]

\* while batch.len() < size && !self.exhausted
RECURSIVE MaskLoop(_, _, _)
MaskLoop(g, size, acc) ==
    IF Len(acc) < size /\ ~g.exhausted
    THEN MaskLoop(MaskIncrement(g), size, Append(acc, MaskCandidate(g)))
    ELSE [gen |-> g, batch |-> acc]

MaskNextBatch(g, size) ==
    IF g.exhausted THEN [gen |-> g, ret |-> None, panic |-> FALSE]
    ELSE LET r == MaskLoop(g, size, <<>>)
         IN  [gen |-> r.gen, ret |-> BatchOrNone(r.batch), panic |-> FALSE]

MaskEstimatedSize(g) ==
    SeqProduct([i \in 1..Len(g.pattern) |-> Len(g.pattern[i])])

MaskReset(g) ==
    [g EXCEPT !.current = Zeros(Len(g.pattern)), !.exhausted = FALSE]

----------------------------------------------------------------------------
(* BruteForceGenerator *)

BruteForceNew(charset, min_length, max_length) ==
    [BlankGen EXCEPT !.kind = "brute", !.charset = charset,
                     !.min_length = min_length, !.max_length = max_length,
                     !.current_length = min_length,
                     !.current = Zeros(min_length), !.exhausted = FALSE]

\* increment_current, position i (1-based) downwards; 0: fell off => false
RECURSIVE IncFrom(_, _, _)
IncFrom(cur, n, i) ==
    IF i = 0 THEN [current |-> cur, more |-> FALSE]
    ELSE IF cur[i] + 1 < n
         THEN [current |-> [cur EXCEPT ![i] = cur[i] + 1], more |-> TRUE]
    ELSE IncFrom([cur EXCEPT ![i] = 0], n, i - 1)

IncrementCurrent(g) == IncFrom(g.current, Len(g.charset), Len(g.current))

\* what follows batch.push(candidate) in the loop of next_batch
BruteAdvance(g) ==
    LET r == IncrementCurrent(g)
    IN  IF r.more THEN [g EXCEPT !.current = r.current]
        ELSE IF g.current_length + 1 <= g.max_length
             THEN [g EXCEPT !.current_length = g.current_length + 1,
                            !.current = Zeros(g.current_length + 1)]
        ELSE [g EXCEPT !.current_length = g.current_length + 1,
                       !.current = r.current]

\* self.charset[idx] panics when idx is out of bounds
BruteIndexPanics(g) ==
    \E i \in 1..Len(g.current) : g.current[i] >= Len(g.charset)

BruteCandidate(g) ==
    [i \in 1..Len(g.current) |-> g.charset[g.current[i] + 1]]

\* while batch.len() < size
RECURSIVE BruteLoop(_, _, _)
BruteLoop(g, size, acc) ==
    IF Len(acc) >= size THEN [gen |-> g, batch |-> acc, panic |-> FALSE]
    ELSE IF g.current_length > g.max_length
         THEN [gen |-> [g EXCEPT !.exhausted = TRUE], batch |-> acc,
               panic |-> FALSE]
    ELSE IF BruteIndexPanics(g)
         THEN [gen |-> g, batch |-> acc, panic |-> TRUE]
    ELSE BruteLoop(BruteAdvance(g), size, Append(acc, BruteCandidate(g)))

BruteNextBatch(g, size) ==
    IF g.exhausted THEN [gen |-> g, ret |-> None, panic |-> FALSE]
    ELSE LET r == BruteLoop(g, size, <<>>)
         IN  [gen |-> r.gen, ret |-> BatchOrNone(r.batch), panic |-> r.panic]

\* min_length..=max_length
RECURSIVE BruteSum(_, _, _)
BruteSum(base, len, max) ==
    IF len > max THEN 0 ELSE Pow(base, len) + BruteSum(base, len + 1, max)

\* mutant: the two lengths are put in order before summing
BruteEstimatedSizeOrdered(g) ==
    IF g.min_length <= g.max_length
    THEN BruteSum(Len(g.charset), g.min_length, g.max_length)
    ELSE BruteSum(Len(g.charset), g.max_length, g.min_length)

BruteEstimatedSize(g) == BruteSum(Len(g.charset), g.min_length, g.max_length)

\* u64 values are kept as 16-bit limbs, least significant first, without
\* leading zero limbs; the exact keyspace sizes use as many limbs as needed
LimbBase == 65536
U64Limbs == 4
U64Max == [i \in 1..U64Limbs |-> LimbBase - 1]

RECURSIVE BigNorm(_)
BigNorm(x) ==
    IF x # <<>> /\ x[Len(x)] = 0 THEN BigNorm(SubSeq(x, 1, Len(x) - 1)) ELSE x

RECURSIVE BigFromInt(_)
BigFromInt(n) ==
    IF n = 0 THEN <<>>
    ELSE <<n % LimbBase>> \o BigFromInt(n \div LimbBase)

RECURSIVE BigMulCarry(_, _, _, _, _)
BigMulCarry(x, m, i, carry, acc) ==
    IF i > Len(x)
    THEN BigNorm(acc \o BigFromInt(carry))
    ELSE LET v == x[i] * m + carry
         IN  BigMulCarry(x, m, i + 1, v \div LimbBase, Append(acc, v % LimbBase))

\* x * m for a small factor m
BigMulSmall(x, m) == BigMulCarry(x, m, 1, 0, <<>>)

BigLimb(x, i) == IF i <= Len(x) THEN x[i] ELSE 0

RECURSIVE BigAddCarry(_, _, _, _, _)
BigAddCarry(x, y, i, carry, acc) ==
    IF i > Len(x) /\ i > Len(y)
    THEN BigNorm(acc \o BigFromInt(carry))
    ELSE LET v == BigLimb(x, i) + BigLimb(y, i) + carry
         IN  BigAddCarry(x, y, i + 1, v \div LimbBase, Append(acc, v % LimbBase))

BigAdd(x, y) == BigAddCarry(x, y, 1, 0, <<>>)

RECURSIVE BigPow(_, _)
BigPow(b, e) == IF e = 0 THEN <<1>> ELSE BigMulSmall(BigPow(b, e - 1), b)

FitsU64(x) == Len(x) <= U64Limbs

\* the low 64 bits
WrapU64(x) == IF FitsU64(x) THEN x ELSE BigNorm(SubSeq(x, 1, U64Limbs))

\* u64::saturating_add, u64::saturating_pow
Saturate(x) == IF FitsU64(x) THEN x ELSE U64Max
SaturatingAdd(x, y) == Saturate(BigAdd(x, y))
SaturatingPow(b, e) == Saturate(BigPow(b, e))

\* Iterator::product over u64: `a * b` at each step, which overflows where
\* the exact product of the step does not fit
RECURSIVE ProductU64(_, _, _)
ProductU64(sizes, i, acc) ==
    IF i > Len(sizes) THEN acc
    ELSE LET exact == BigMulSmall(acc.value, sizes[i])
         IN  ProductU64(sizes, i + 1,
                        [value |-> WrapU64(exact),
                         overflowed |-> acc.overflowed \/ ~FitsU64(exact)])

\* MaskGenerator::estimated_size at the width of u64
MaskEstimatedSizeU64(g) ==
    ProductU64([i \in 1..Len(g.pattern) |-> Len(g.pattern[i])], 1,
               [value |-> <<1>>, overflowed |-> FALSE])

\* mutant: the powers are added without saturation
RECURSIVE BruteSumWrapping(_, _, _, _)
BruteSumWrapping(base, len, max, total) ==
    IF len > max THEN total
    ELSE BruteSumWrapping(base, len + 1, max,
                          WrapU64(BigAdd(total, WrapU64(BigPow(base, len)))))

RECURSIVE BruteSumU64(_, _, _, _)
BruteSumU64(base, len, max, total) ==
    IF len > max THEN total
    ELSE BruteSumU64(base, len + 1, max,
                     SaturatingAdd(total, SaturatingPow(base, len)))

\* BruteForceGenerator::estimated_size at the width of u64
BruteEstimatedSizeU64(g) ==
    BruteSumU64(Len(g.charset), g.min_length, g.max_length, <<>>)

\* mutant: reset forgets to go back to min_length
BruteResetKeepsLength(g) ==
    [g EXCEPT !.current = Zeros(g.min_length), !.exhausted = FALSE]

BruteReset(g) ==
    [g EXCEPT !.current_length = g.min_length,
              !.current = Zeros(g.min_length), !.exhausted = FALSE]

----------------------------------------------------------------------------
(* trait Generator: dynamic dispatch on the kind *)

NextBatch(g, size) ==
    CASE g.kind = "dict" -> DictNextBatch(g, size)
      [] g.kind = "mask" -> MaskNextBatch(g, size)
      [] OTHER -> BruteNextBatch(g, size)

Reset(g) ==
    CASE g.kind = "dict" -> DictReset(g)
      [] g.kind = "mask" -> MaskReset(g)
      [] OTHER -> BruteReset(g)

\* Some(n) for mask and brute force; the dictionary returns total_lines,
\* which is None: -1 stands for it
EstimatedSize(g) ==
    CASE g.kind = "dict" -> -1
      [] g.kind = "mask" -> MaskEstimatedSize(g)
      [] OTHER -> BruteEstimatedSize(g)

----------------------------------------------------------------------------
(* Algorithm and the hashers (core/hasher.rs) *)

Algorithms == {"BlitzHash", "Md5", "Sha1", "Sha256", "Md4"}

\* impl Display for Algorithm
AlgorithmToString(a) ==
    CASE a = "BlitzHash" -> "blitzhash"
      [] a = "Md5" -> "md5"
      [] a = "Sha1" -> "sha1"
      [] a = "Sha256" -> "sha256"
      [] OTHER -> "md4"

\* the characters Display writes for the tag
AlgorithmChars(a) ==
    CASE a = "BlitzHash" -> <<"b", "l", "i", "t", "z", "h", "a", "s", "h">>
      [] a = "Md5" -> <<"m", "d", "5">>
      [] a = "Sha1" -> <<"s", "h", "a", "1">>
      [] a = "Sha256" -> <<"s", "h", "a", "2", "5", "6">>
      [] OTHER -> <<"m", "d", "4">>

LowerLetters ==
    <<"a", "b", "c", "d", "e", "f", "g", "h", "i", "j", "k", "l", "m", "n",
      "o", "p", "q", "r", "s", "t", "u", "v", "w", "x", "y", "z">>
UpperLetters ==
    <<"A", "B", "C", "D", "E", "F", "G", "H", "I", "J", "K", "L", "M", "N",
      "O", "P", "Q", "R", "S", "T", "U", "V", "W", "X", "Y", "Z">>

\* str::to_lowercase on the characters a name is made of
ToLowercase(chars) ==
    [i \in 1..Len(chars) |->
        IF \E k \in 1..26 : UpperLetters[k] = chars[i]
        THEN LowerLetters[CHOOSE k \in 1..26 : UpperLetters[k] = chars[i]]
        ELSE chars[i]]

\* mutant: the name is matched as it is written
AlgorithmFromStrExact(chars) ==
    IF \E a \in Algorithms : AlgorithmChars(a) = chars
    THEN [ok |-> TRUE,
          value |-> CHOOSE a \in Algorithms : AlgorithmChars(a) = chars]
    ELSE IF chars = <<"b", "l", "i", "t", "z">>
         THEN [ok |-> TRUE, value |-> "BlitzHash"]
    ELSE [ok |-> FALSE, value |-> "none"]

\* impl FromStr for Algorithm
AlgorithmFromStr(chars) ==
    LET lower == ToLowercase(chars)
    IN  CASE lower = <<"b", "l", "i", "t", "z", "h", "a", "s", "h">>
               \/ lower = <<"b", "l", "i", "t", "z">> ->
                 [ok |-> TRUE, value |-> "BlitzHash"]
          [] lower = <<"m", "d", "5">> -> [ok |-> TRUE, value |-> "Md5"]
          [] lower = <<"s", "h", "a", "1">> -> [ok |-> TRUE, value |-> "Sha1"]
          [] lower = <<"s", "h", "a", "2", "5", "6">> ->
                 [ok |-> TRUE, value |-> "Sha256"]
          [] lower = <<"m", "d", "4">> -> [ok |-> TRUE, value |-> "Md4"]
          [] OTHER -> [ok |-> FALSE, value |-> "none"]

\* The digest functions are those of the md5, sha1 and sha2 crates and of
\* blitzhash.  Each is modelled as a streaming fold of the input bytes into a
\* small state (so different inputs can collide, and the order of the bytes
\* matters), tagged with a byte that tells the functions apart.
DigestNew == 1
DigestUpdate(st, data) ==
    LET F[i \in 0..Len(data)] ==
            IF i = 0 THEN st ELSE (2 * F[i - 1] + data[i]) % 5
    IN  F[Len(data)]
DigestFinalize(tag, st) == <<tag, st>>

\* which digest function the hasher create_hasher(a) runs: Md4Hasher runs Md5
DigestTag(a) ==
    CASE a = "BlitzHash" -> 4
      [] a = "Md5" -> 1
      [] a = "Sha1" -> 2
      [] a = "Sha256" -> 3
      [] OTHER -> 1

\* Hasher::hash of create_hasher(a)
HasherHash(a, input) ==
    DigestFinalize(DigestTag(a), DigestUpdate(DigestNew, input))

\* mutant: the salt is fed to the digest after the password
HashWithSaltAppended(a, password, salt) ==
    DigestFinalize(DigestTag(a),
                   DigestUpdate(DigestUpdate(DigestNew, password), salt))

\* Hasher::hash_with_salt of create_hasher(a): BlitzHasher hashes the
\* concatenation, the others update with the salt and then the password
HasherHashWithSalt(a, password, salt) ==
    IF a = "BlitzHash"
    THEN DigestFinalize(DigestTag(a), DigestUpdate(DigestNew, salt \o password))
    ELSE DigestFinalize(DigestTag(a),
                        DigestUpdate(DigestUpdate(DigestNew, salt), password))

----------------------------------------------------------------------------
(* hex and Target (core/target.rs) *)

HexChars == <<"0", "1", "2", "3", "4", "5", "6", "7", "8", "9",
              "a", "b", "c", "d", "e", "f">>
UpperHexChars == <<"0", "1", "2", "3", "4", "5", "6", "7", "8", "9",
                   "A", "B", "C", "D", "E", "F">>

\* hex::encode
HexEncode(bytes) ==
    Flatten([i \in 1..Len(bytes) |->
                <<HexChars[(bytes[i] \div 16) + 1], HexChars[(bytes[i] % 16) + 1]>>])

IsHexChar(c) ==
    \E v \in 1..16 : HexChars[v] = c \/ UpperHexChars[v] = c

HexVal(c) ==
    (CHOOSE v \in 1..16 : HexChars[v] = c \/ UpperHexChars[v] = c) - 1

\* hex::decode: Err on an odd length or a character that is no hex digit
HexDecode(str) ==
    IF Len(str) % 2 # 0 \/ \E i \in 1..Len(str) : ~IsHexChar(str[i])
    THEN [ok |-> FALSE, bytes |-> <<>>]
    ELSE [ok |-> TRUE,
          bytes |-> [i \in 1..(Len(str) \div 2) |->
                        16 * HexVal(str[2 * i - 1]) + HexVal(str[2 * i])]]

\* Result::unwrap_or_default on hex::decode
DecodeOrDefault(str) ==
    LET d == HexDecode(str) IN IF d.ok THEN d.bytes ELSE <<>>

\* Target::matches
TargetMatches(t, computed_hash) == computed_hash = DecodeOrDefault(t.hash)

\* Target::salt_bytes (the salt is kept as its bytes)
SaltBytes(t) == IF t.salt = <<>> THEN <<>> ELSE t.salt

Target(id, algorithm, hash, salt) ==
    [id |-> id, username |-> "user", algorithm |-> algorithm, hash |-> hash,
     salt |-> salt]

----------------------------------------------------------------------------
(* Statistics and Engine::new (core/engine.rs) *)

StatisticsNew(targets_total) ==
    [guesses_tried |-> 0, hashes_computed |-> 0, targets_found |-> 0,
     targets_total |-> targets_total]

NoResult == [returned |-> FALSE, matches |-> <<>>, statistics |-> StatisticsNew(0)]

\* the keys of targets_by_algo, and the Vec<&Target> of a key (in the order of
\* self.targets)
BucketKeys(ts) == {AlgorithmToString(ts[i].algorithm) : i \in 1..Len(ts)}

IsBucketMember(t, key) == AlgorithmToString(t.algorithm) = key

Bucket(ts, key) == SelectSeq(ts, LAMBDA t : IsBucketMember(t, key))

\* the orders in which `for (..) in &targets_by_algo` may visit the keys
KeyOrders(ts) ==
    {o \in [1..Cardinality(BucketKeys(ts)) -> BucketKeys(ts)] :
        \A i, j \in DOMAIN o : i # j => o[i] # o[j]}

\* the state of every variable of a run that has not started
RunIdle ==
    /\ lock = 0
    /\ pc = "idle"
    /\ runs = 0
    /\ found_ids = {}
    /\ matches = <<>>
    /\ order = <<>>
    /\ bi = 0
    /\ batch = <<>>
    /\ tk = <<>>
    /\ local = <<>>
    /\ result = NoResult
    /\ consumed = <<>>
    /\ nbCalls = 0
    /\ lateCall = FALSE
    /\ active = 0
    /\ hashesBefore = 0
    /\ observed = <<>>
    /\ gen0 = BlankGen
    /\ events = <<>>
    /\ hashedFound = FALSE

\* no engine: the generator is used on its own
EngineIdle ==
    /\ targets = <<>>
    /\ workers = 1
    /\ batch_size = 1
    /\ stats = StatisticsNew(0)
    /\ RunIdle

----------------------------------------------------------------------------
(* The hashers on their own: hash and hash_with_salt of create_hasher(a) *)

\* nothing has been called, run_cracking has not been entered, there is no
\* log file
CallIdle == [applied |-> FALSE, arg |-> <<>>, out |-> <<>>]
NoOption == [some |-> FALSE, value |-> <<>>]
Given(v) == [some |-> TRUE, value |-> v]

\* the arguments of run_cracking and where it stands: no invocation
CliIdle ==
    [pc |-> "none", manifest |-> <<>>, strategy |-> "brute",
     wordlist |-> NoOption, mask |-> NoOption, charset |-> NoOption,
     min_len |-> 1, max_len |-> 1, repeat |-> 1, log |-> FALSE,
     loaded |-> <<>>, generator |-> BlankGen, logger |-> FALSE, run |-> 0,
     engines |-> 0, error |-> "", csv0 |-> [exists |-> FALSE, rows |-> <<>>]]

\* the benchmark file: whether it exists, and its records
CsvIdle == [exists |-> FALSE, rows |-> <<>>]

\* no hasher is being looked at
HashIdle ==
    [applied |-> FALSE, algorithm |-> "Md5", password |-> <<>>, salt |-> <<>>,
     hash |-> <<>>, hash_with_salt |-> <<>>, hash_joined |-> <<>>]

HashBytes == {97, 98}

HashInputs ==
    {[HashIdle EXCEPT !.algorithm = a, !.password = p, !.salt = sl] :
        a \in Algorithms,
        p \in SeqsUpTo(HashBytes, MaxLen),
        sl \in SeqsUpTo(HashBytes, MaxLen)}

HashInit ==
    /\ hcase \in HashInputs
    /\ call = CallIdle
    /\ cli = CliIdle
    /\ csv = CsvIdle
    /\ gen = BlankGen
    /\ ret = None
    /\ produced = <<>>
    /\ orig = <<>>
    /\ sawNone = FALSE
    /\ atNone = -1
    /\ gpanic = FALSE
    /\ lastSize = 0
    /\ EngineIdle

\* the hasher of the algorithm is created and asked for hash(password),
\* hash_with_salt(password, salt) and hash(salt || password)
ApplyHasher ==
    /\ ~hcase.applied
    /\ hcase' = [hcase EXCEPT
                    !.applied = TRUE,
                    !.hash = HasherHash(hcase.algorithm, hcase.password),
                    !.hash_with_salt =
                        HasherHashWithSalt(hcase.algorithm, hcase.password,
                                           hcase.salt),
                    !.hash_joined =
                        HasherHash(hcase.algorithm,
                                   hcase.salt \o hcase.password)]
    /\ UNCHANGED <<gvars, evars, call, cli, csv>>

HashNext == ApplyHasher

SpecHash == HashInit /\ [][HashNext]_vars

----------------------------------------------------------------------------
(* MaskGenerator::new on its own: any mask string *)

MaskAlphabet == {"?", "l", "u", "d", "s", "a"}

MaskNewInputs ==
    {[CallIdle EXCEPT !.arg = m, !.out = [ok |-> FALSE, gen |-> BlankGen]] :
        m \in SeqsUpTo(MaskAlphabet, MaxMaskLen)}

\* the variables of the generator, hasher, run_cracking and logger at rest
OthersIdle ==
    /\ gen = BlankGen
    /\ ret = None
    /\ produced = <<>>
    /\ orig = <<>>
    /\ sawNone = FALSE
    /\ atNone = -1
    /\ gpanic = FALSE
    /\ lastSize = 0
    /\ hcase = HashIdle
    /\ cli = CliIdle
    /\ csv = CsvIdle
    /\ EngineIdle

MaskNewInit ==
    /\ call \in MaskNewInputs
    /\ OthersIdle

\* MaskGenerator::new(mask): Err, or Ok with the generator
ApplyMaskNew ==
    /\ ~call.applied
    /\ call' = [call EXCEPT !.applied = TRUE, !.out = MaskNew(call.arg)]
    /\ UNCHANGED <<gvars, evars, hcase, cli, csv>>

MaskNewNext == ApplyMaskNew

SpecMaskNew == MaskNewInit /\ [][MaskNewNext]_vars

----------------------------------------------------------------------------
(* Algorithm names on their own: Display and FromStr *)

\* the spellings of a name in every letter case
CaseVariants(w) ==
    {[i \in 1..Len(w) |->
        IF i \in S /\ \E k \in 1..26 : LowerLetters[k] = w[i]
        THEN UpperLetters[CHOOSE k \in 1..26 : LowerLetters[k] = w[i]]
        ELSE w[i]] : S \in SUBSET (1..Len(w))}

\* names other than the five serialised names
OtherNames ==
    {<<>>, <<"m", "d">>, <<"m", "d", "5", "5">>, <<"s", "h", "a">>,
     <<"n", "t", "l", "m">>, <<"s", "h", "a", "5", "1", "2">>,
     <<"b", "l", "i", "t", "z">>, <<"b", "l", "i", "t", "z", "h">>}

NameInputs ==
    UNION {CaseVariants(AlgorithmChars(a)) : a \in Algorithms}
    \cup UNION {CaseVariants(w) : w \in OtherNames}

AlgorithmInit ==
    /\ call \in {[CallIdle EXCEPT !.arg = n,
                                   !.out = [ok |-> FALSE, value |-> "none"]] :
                    n \in NameInputs}
    /\ OthersIdle

\* name.parse::<Algorithm>()
ApplyFromStr ==
    /\ ~call.applied
    /\ call' = [call EXCEPT !.applied = TRUE,
                            !.out = AlgorithmFromStr(call.arg)]
    /\ UNCHANGED <<gvars, evars, hcase, cli, csv>>

AlgorithmNext == ApplyFromStr

SpecAlgorithm == AlgorithmInit /\ [][AlgorithmNext]_vars

----------------------------------------------------------------------------
(* estimated_size on its own, for keyspaces up to and beyond 2^64 *)

MaxPositions == 14

RECURSIVE Repeat(_, _)
Repeat(w, n) == IF n = 0 THEN <<>> ELSE w \o Repeat(w, n - 1)

\* masks of n class positions, with and without a literal in front
SizeMasks ==
    {Repeat(<<"?", c>>, n) : c \in {"l", "d"}, n \in 0..MaxPositions}
    \cup {<<"a">> \o Repeat(<<"?", "u">>, n) : n \in 0..MaxPositions}

SizeInputs ==
    {MaskNew(m).gen : m \in SizeMasks}
    \cup {BruteForceNew(cs, lo, hi) :
            cs \in {<<>>, <<97>>, <<97, 98>>, Lowercase \o Digits},
            lo \in 0..1, hi \in 0..MaxPositions}

SizeInit ==
    /\ call \in {[CallIdle EXCEPT !.arg = g,
                                   !.out = [panic |-> FALSE, value |-> <<>>]] :
                    g \in SizeInputs}
    /\ OthersIdle

\* generator.estimated_size(); a product that overflows panics in a build
\* with overflow checks and wraps in one without
ApplyEstimatedSize ==
    /\ ~call.applied
    /\ \E panics \in BOOLEAN :
         LET g == call.arg
             m == MaskEstimatedSizeU64(g)
         IN  /\ panics => (g.kind = "mask" /\ m.overflowed)
             /\ call' = [call EXCEPT
                   !.applied = TRUE,
                   !.out = IF g.kind = "mask"
                           THEN [panic |-> panics,
                                 value |-> IF panics THEN <<>> ELSE m.value]
                           ELSE [panic |-> FALSE,
                                 value |-> BruteEstimatedSizeU64(g)]]
    /\ UNCHANGED <<gvars, evars, hcase, cli, csv>>

SizeNext == ApplyEstimatedSize

SpecSize == SizeInit /\ [][SizeNext]_vars

----------------------------------------------------------------------------
(* The generators on their own: any caller of next_batch and reset *)

\* wordlist lines: blank, all whitespace, plain, padded
WordlistLines == {<<>>, <<32>>, <<97>>, <<98>>, <<32, 97>>, <<97, 32>>}
MaskChars == {"?", "d", "a"}
CharsetBytes == {97, 98}

\* a wordlist with a blank line between two words
GappedWordlist == <<<<97>>, <<>>, <<98>>>>

DictInputs == SeqsUpTo(WordlistLines, MaxLines) \cup {GappedWordlist}

MaskInputs ==
    {m \in SeqsUpTo(MaskChars, MaxMaskLen) \cup {<<"?", "d", "?", "d">>} :
        MaskNew(m).ok}

GenInputs ==
    {DictionaryNew(f) : f \in DictInputs}
    \cup {MaskNew(m).gen : m \in MaskInputs}
    \cup {BruteForceNew(cs, lo, hi) :
            cs \in SeqsUpTo(CharsetBytes, MaxCharset),
            lo \in 0..MaxLen, hi \in 0..MaxLen}

GenInit ==
    /\ gen \in GenInputs
    /\ ret = None
    /\ produced = <<>>
    /\ orig = <<>>
    /\ sawNone = FALSE
    /\ atNone = -1
    /\ gpanic = FALSE
    /\ lastSize = 0
    /\ hcase = HashIdle
    /\ call = CallIdle
    /\ cli = CliIdle
    /\ csv = CsvIdle
    /\ EngineIdle

GenNextBatch(size) ==
    /\ ~gpanic
    /\ LET r == NextBatch(gen, size)
       IN  /\ gen' = r.gen
           /\ gpanic' = r.panic
           /\ ret' = IF r.panic THEN ret ELSE r.ret
           /\ produced' = IF r.panic THEN produced
                          ELSE produced \o r.ret.batch
           /\ sawNone' = (sawNone \/ (~r.panic /\ ~r.ret.some))
           /\ atNone' = IF ~r.panic /\ ~r.ret.some /\ atNone = -1
                        THEN Len(produced) ELSE atNone
    /\ lastSize' = size
    /\ UNCHANGED <<orig, ovars>>
    /\ UNCHANGED evars

GenReset ==
    /\ ~gpanic
    /\ gen' = Reset(gen)
    /\ orig' = IF Len(produced) > Len(orig) THEN produced ELSE orig
    /\ produced' = <<>>
    /\ sawNone' = FALSE
    /\ atNone' = -1
    /\ lastSize' = 0
    /\ UNCHANGED <<ret, gpanic, ovars>>
    /\ UNCHANGED evars

GenNext ==
    \/ \E size \in 1..MaxSize : GenNextBatch(size)
    \/ GenReset

SpecGen == GenInit /\ [][GenNext]_vars

----------------------------------------------------------------------------
(* Engine::run (core/engine.rs) *)

\* mutant: every batch match is pushed, found or not
InsertAlways(found, id) == TRUE

\* HashSet::insert returns true when the id was not in the set
InsertSucceeds(found, id) == id \notin found

\* for m in batch_matches { if found_ids.insert(..) { matches.push(m) } }
RECURSIVE RecordFound(_, _, _)
RecordFound(batch_matches, found, ms) ==
    IF batch_matches = <<>> THEN [found_ids |-> found, matches |-> ms]
    ELSE LET m == Head(batch_matches)
         IN  IF InsertSucceeds(found, m.target_id)
             THEN RecordFound(Tail(batch_matches), found \cup {m.target_id},
                              Append(ms, m))
             ELSE RecordFound(Tail(batch_matches), found, ms)

\* mutant: any() where the code has all()
BucketSolvedAny(algo_targets, found) ==
    \E k \in 1..Len(algo_targets) : algo_targets[k].id \in found

\* algo_targets.iter().all(|t| found_ids.contains(&t.id))
BucketSolved(algo_targets, found) ==
    \A k \in 1..Len(algo_targets) : algo_targets[k].id \in found

\* found_ids.len() >= self.targets.len()
AllFound(found, ts) == Cardinality(found) >= Len(ts)

\* mutant: the salt is never used
ComputeHashNoSalt(t, candidate) == HasherHash(t.algorithm, candidate)

\* the digest a worker computes for a candidate against a target
ComputeHash(t, candidate) ==
    IF t.salt = <<>>
    THEN HasherHash(t.algorithm, candidate)
    ELSE HasherHashWithSalt(t.algorithm, candidate, SaltBytes(t))

TargetMatchOf(t, candidate, guesses) ==
    [target_id |-> t.id, username |-> t.username, password |-> candidate,
     algorithm |-> t.algorithm, guesses_tried |-> guesses]

\* the bucket the parallel region is working on
AlgoTargets == Bucket(targets, order[bi + 1])

TaskDone(i) == tk[i] = Len(AlgoTargets) /\ lock # i
TaskActive(i) == (tk[i] > 0 \/ lock = i) /\ ~TaskDone(i)

\* hashes_computed += batch_size * targets_by_algo.len()
HashesIncrement(len) == len * Cardinality(BucketKeys(targets))

\* mutant: the targets still to find are counted
TargetsRemaining(found) == Len(targets) - Cardinality(found)

\* stats.targets_found = found_ids.len()
TargetsFound(found) == Cardinality(found)

\* run is entered: the locals are fresh, the statistics are those of the Engine
RunStart ==
    /\ pc \in {"idle", "done"}
    /\ runs < MaxRuns
    /\ runs' = runs + 1
    /\ matches' = <<>>
    /\ found_ids' = {}
    /\ order' \in KeyOrders(targets)
    /\ bi' = 0
    /\ batch' = <<>>
    /\ tk' = <<>>
    /\ local' = <<>>
    /\ consumed' = <<>>
    /\ nbCalls' = 0
    /\ lateCall' = FALSE
    /\ active' = 0
    /\ observed' = <<>>
    /\ gen0' = gen
    /\ events' = <<>>
    /\ hashedFound' = FALSE
    /\ pc' = "loop"
    /\ UNCHANGED <<gvars, ovars, targets, workers, batch_size, stats, lock,
                   result, hashesBefore>>

\* the top of the loop: the all-found check, then next_batch; leaving the loop
\* returns the CrackingResult
LoopTop ==
    /\ pc = "loop"
    /\ lock = 0
    /\ IF AllFound(found_ids, targets)
       THEN /\ pc' = "done"
            /\ result' = [returned |-> TRUE, matches |-> matches,
                          statistics |-> stats]
            /\ events' = Append(events, "return")
            /\ UNCHANGED <<gen, gpanic, produced, batch, bi, consumed,
                           nbCalls, lateCall, active>>
       ELSE LET r == NextBatch(gen, batch_size)
            IN  /\ gen' = r.gen
                /\ gpanic' = r.panic
                /\ nbCalls' = nbCalls + 1
                /\ lateCall' = (lateCall \/
                                \A k \in 1..Len(targets) : targets[k].id \in found_ids)
                /\ IF r.panic
                   THEN /\ pc' = "panicked"
                        /\ UNCHANGED <<result, produced, batch, bi, consumed,
                                       active, events>>
                   ELSE IF ~r.ret.some
                   THEN /\ pc' = "done"
                        /\ result' = [returned |-> TRUE, matches |-> matches,
                                      statistics |-> stats]
                        /\ events' = Append(events, "return")
                        /\ UNCHANGED <<produced, batch, bi, consumed, active>>
                   ELSE /\ pc' = "buckets"
                        /\ batch' = r.ret.batch
                        /\ bi' = 0
                        /\ active' = 0
                        /\ consumed' = consumed \o r.ret.batch
                        /\ produced' = produced \o r.ret.batch
                        /\ events' = Append(events, "next_batch")
                        /\ UNCHANGED result
    /\ UNCHANGED <<ghosts, hashedFound, targets, workers, batch_size, stats, lock, runs,
                   found_ids, matches, order, tk, local, hashesBefore, observed,
                   gen0>>

\* one turn of `for (algo_str, algo_targets) in &targets_by_algo`, up to
\* pool.install: a solved bucket is skipped, another starts a parallel region
BucketStep ==
    /\ pc = "buckets"
    /\ IF bi >= Len(order)
       THEN /\ pc' = "stats"
            /\ UNCHANGED <<bi, tk, local, active, events>>
       ELSE IF BucketSolved(AlgoTargets, found_ids)
       THEN /\ bi' = bi + 1
            /\ UNCHANGED <<pc, tk, local, active, events>>
       ELSE /\ pc' = "par"
            /\ tk' = [i \in 1..Len(batch) |-> 0]
            /\ local' = [i \in 1..Len(batch) |-> <<>>]
            /\ active' = active + 1
            /\ events' = Append(events, "hash")
            /\ UNCHANGED bi
    /\ UNCHANGED <<gvars, ovars, hashedFound, targets, workers, batch_size, stats, lock,
                   runs, found_ids, matches, order, batch, result, consumed,
                   nbCalls, lateCall, hashesBefore, observed, gen0>>

\* mutant: the matches of the candidates are collected last candidate first
CollectReversed(locals) ==
    Flatten([i \in 1..Len(locals) |-> locals[Len(locals) + 1 - i]])

\* batch.par_iter().flat_map(..).collect(): the local_matches of the
\* candidates, concatenated in the order of the batch
Collect(locals) == Flatten(locals)

\* mutant: a worker never skips a target
SkipNever(t, found) == FALSE

\* if found_ids.contains(&target.id) { continue; }
SkipTarget(t, found) == t.id \in found

\* a worker of the pool takes (or goes on with) candidate i and probes it
\* against the next target of the bucket; on a match it locks the statistics
WorkerProbe(i) ==
    /\ pc = "par"
    /\ tk[i] < Len(AlgoTargets)
    /\ lock # i
    /\ tk[i] = 0 =>
          Cardinality({j \in 1..Len(batch) : TaskActive(j)}) < workers
    /\ LET t == AlgoTargets[tk[i] + 1]
       IN  IF SkipTarget(t, found_ids)
           THEN /\ tk' = [tk EXCEPT ![i] = tk[i] + 1]
                /\ UNCHANGED <<lock, hashedFound>>
           ELSE /\ hashedFound' = (hashedFound \/ t.id \in found_ids)
                /\ IF TargetMatches(t, ComputeHash(t, batch[i]))
                   THEN /\ lock = 0
                        /\ lock' = i
                        /\ UNCHANGED tk
                   ELSE /\ tk' = [tk EXCEPT ![i] = tk[i] + 1]
                        /\ UNCHANGED lock
    /\ UNCHANGED <<gvars, ovars, targets, workers, batch_size, stats, pc,
                   runs, found_ids, matches, order, bi, batch, local, result,
                   consumed, nbCalls, lateCall, active, hashesBefore,
                   observed, gen0, events>>

\* mutant: the worker pushes the TargetMatch and keeps the guard
WorkerPushKeepsLock(i) ==
    /\ pc = "par"
    /\ lock = i
    /\ tk[i] < Len(AlgoTargets)
    /\ local' = [local EXCEPT ![i] =
                    Append(@, TargetMatchOf(AlgoTargets[tk[i] + 1], batch[i],
                                            stats.guesses_tried))]
    /\ tk' = [tk EXCEPT ![i] = tk[i] + 1]
    /\ UNCHANGED <<gvars, ovars, hashedFound, targets, workers, batch_size, stats, pc,
                   runs, found_ids, matches, order, bi, batch, result,
                   consumed, nbCalls, lateCall, active, hashesBefore,
                   observed, gen0, events, lock>>

\* the worker holding the lock pushes the TargetMatch with the guesses_tried
\* it reads, and drops the guard
WorkerPush(i) ==
    /\ pc = "par"
    /\ lock = i
    /\ local' = [local EXCEPT ![i] =
                    Append(@, TargetMatchOf(AlgoTargets[tk[i] + 1], batch[i],
                                            stats.guesses_tried))]
    /\ tk' = [tk EXCEPT ![i] = tk[i] + 1]
    /\ lock' = 0
    /\ UNCHANGED <<gvars, ovars, hashedFound, targets, workers, batch_size, stats, pc,
                   runs, found_ids, matches, order, bi, batch, result,
                   consumed, nbCalls, lateCall, active, hashesBefore,
                   observed, gen0, events>>

\* the parallel region is over: collect() keeps the order of the batch, and
\* the driver records the matches
RecordMatches ==
    /\ pc = "par"
    /\ \A i \in 1..Len(batch) : TaskDone(i)
    /\ LET r == RecordFound(Collect(local), found_ids, matches)
       IN  /\ found_ids' = r.found_ids
           /\ matches' = r.matches
    /\ bi' = bi + 1
    /\ pc' = "buckets"
    /\ UNCHANGED <<gvars, ovars, hashedFound, targets, workers, batch_size, stats, lock,
                   runs, order, batch, tk, local, result, consumed, nbCalls,
                   lateCall, active, hashesBefore, observed, gen0, events>>

\* the statistics block after the buckets
UpdateStats ==
    /\ pc = "stats"
    /\ lock = 0
    /\ hashesBefore' = stats.hashes_computed
    /\ stats' = [stats EXCEPT
                    !.guesses_tried = @ + Len(batch),
                    !.hashes_computed = @ + HashesIncrement(Len(batch)),
                    !.targets_found = TargetsFound(found_ids)]
    /\ pc' = "callback"
    /\ events' = Append(events, "stats")
    /\ UNCHANGED <<gvars, ovars, hashedFound, targets, workers, batch_size, lock, runs,
                   found_ids, matches, order, bi, batch, tk, local, result,
                   consumed, nbCalls, lateCall, active, observed, gen0>>

\* mutant: the driver goes back to the top of the loop without calling the
\* observer
CallbackSkipped ==
    /\ pc = "callback"
    /\ lock = 0
    /\ pc' = "loop"
    /\ UNCHANGED <<gvars, ovars, hashedFound, targets, workers, batch_size, stats, lock,
                   runs, found_ids, matches, order, bi, batch, tk, local,
                   result, consumed, nbCalls, lateCall, active, hashesBefore,
                   observed, gen0, events>>

\* `let stats = self.stats.lock().unwrap(); callback(&stats);`: the driver
\* takes the lock and calls the observer with a reference to the guarded value
Callback ==
    /\ pc = "callback"
    /\ lock = 0
    /\ lock' = -1
    /\ observed' = Append(observed, stats)
    /\ events' = Append(events, "observer")
    /\ pc' = "observer"
    /\ UNCHANGED <<gvars, ovars, hashedFound, targets, workers, batch_size, stats, runs,
                   found_ids, matches, order, bi, batch, tk, local, result,
                   consumed, nbCalls, lateCall, active, hashesBefore, gen0>>

\* the observer returns, and the guard is dropped at the end of the block
CallbackReturn ==
    /\ pc = "observer"
    /\ lock = -1
    /\ lock' = 0
    /\ pc' = "loop"
    /\ UNCHANGED <<gvars, ovars, hashedFound, targets, workers, batch_size, stats, runs,
                   found_ids, matches, order, bi, batch, tk, local, result,
                   consumed, nbCalls, lateCall, active, hashesBefore,
                   observed, gen0, events>>

----------------------------------------------------------------------------
(* The engines checked: Engine::new on these targets and generators *)

HashOf(a, password, salt) ==
    HexEncode(IF salt = <<>> THEN HasherHash(a, password)
              ELSE HasherHashWithSalt(a, password, salt))

T_md5_a == Target("t1", "Md5", HashOf("Md5", <<97>>, <<>>), <<>>)
T_sha1_bb == Target("t2", "Sha1", HashOf("Sha1", <<98, 98>>, <<>>), <<>>)
T_md5_b == Target("t3", "Md5", HashOf("Md5", <<98>>, <<>>), <<>>)
T_md4_a == Target("t4", "Md4", HashOf("Md4", <<97>>, <<>>), <<>>)
T_salted == Target("t5", "Sha1", HashOf("Sha1", <<98>>, <<97>>), <<97>>)
T_badhex == Target("t6", "Md5", <<"z", "z">>, <<>>)
T_dup_id == Target("t1", "Sha1", HashOf("Sha1", <<98, 97>>, <<>>), <<>>)
T_dup_empty == Target("t1", "Sha1", HashOf("Sha1", <<>>, <<>>), <<>>)
T_nomatch == Target("t7", "Md5", HashOf("Sha256", <<97>>, <<>>), <<>>)
T_md5_empty == Target("t8", "Md5", HashOf("Md5", <<>>, <<>>), <<>>)

TargetLists ==
    {<<>>, <<T_md5_a>>, <<T_md5_b>>, <<T_salted>>, <<T_badhex>>,
     <<T_md5_a, T_sha1_bb>>, <<T_md5_a, T_md5_b>>, <<T_md4_a, T_md5_a>>,
     <<T_md5_a, T_dup_id>>, <<T_md5_b, T_nomatch>>,
     <<T_md5_a, T_dup_empty>>, <<T_md5_empty>>}

EngineGens ==
    {BruteForceNew(<<97, 98>>, 0, 2),
     BruteForceNew(<<>>, 1, 1),
     BruteForceNew(<<>>, 0, 1),
     BruteForceNew(<<97>>, 1, 0),
     DictionaryNew(<<<<98>>, <<>>, <<97, 32>>, <<97, 97>>>>),
     DictionaryNew(<<<<98>>, <<255>>, <<97>>>>),
     MaskNew(<<"?", "d">>).gen}

Init ==
    /\ gen \in EngineGens
    /\ ret = None
    /\ produced = <<>>
    /\ orig = <<>>
    /\ sawNone = FALSE
    /\ atNone = -1
    /\ gpanic = FALSE
    /\ lastSize = 0
    /\ hcase = HashIdle
    /\ call = CallIdle
    /\ cli = CliIdle
    /\ csv = CsvIdle
    /\ targets \in TargetLists
    /\ workers \in 1..MaxWorkers
    /\ batch_size \in 1..MaxSize
    /\ stats = StatisticsNew(Len(targets))
    /\ RunIdle

Next ==
    \/ RunStart
    \/ LoopTop
    \/ BucketStep
    \/ \E i \in 1..Len(batch) : WorkerProbe(i)
    \/ \E i \in 1..Len(batch) : WorkerPush(i)
    \/ RecordMatches
    \/ UpdateStats
    \/ Callback
    \/ CallbackReturn

Spec == Init /\ [][Next]_vars

\* a step of a task of the parallel region
WorkerStep == \E i \in 1..Len(batch) : WorkerProbe(i) \/ WorkerPush(i)

\* the pool keeps running a task that can take a step (a thread that can
\* hash, take the free lock or release it does so), and the driver goes on
\* when the parallel iterator has returned
SpecLive == Spec /\ WF_vars(WorkerStep) /\ WF_vars(RecordMatches)

----------------------------------------------------------------------------
(* BenchmarkLogger (cli/logger.rs) *)

HeaderRow == [kind |-> "header"]

\* BenchmarkLogger::new: create + append, the header only for a path that
\* did not exist
LoggerNew(f) ==
    [exists |-> TRUE,
     rows |-> IF ~f.exists THEN Append(f.rows, HeaderRow) ELSE f.rows]

\* the record log_result writes for a target
LogRow(res, t) ==
    LET hits == {k \in 1..Len(res.matches) : res.matches[k].target_id = t.id}
        found == hits # {}
    IN  [kind |-> "row", target_id |-> t.id,
         algorithm |-> AlgorithmToString(t.algorithm),
         guesses_tried |-> res.statistics.guesses_tried,
         found |-> found,
         password_length |->
             IF found
             THEN Len(res.matches[CHOOSE k \in hits : \A j \in hits : k <= j].password)
             ELSE -1]

\* BenchmarkLogger::log_result
LogResult(f, res, ts) ==
    [f EXCEPT !.rows = f.rows \o [i \in 1..Len(ts) |-> LogRow(res, ts[i])]]

MaxSessions == 2
MaxLogRows == 4

\* the file before the first session: absent, present and empty, present
\* with the header, present with the header and a record
CsvStates ==
    {CsvIdle,
     [exists |-> TRUE, rows |-> <<>>],
     [exists |-> TRUE, rows |-> <<HeaderRow>>],
     [exists |-> TRUE, rows |-> <<HeaderRow, LogRow(NoResult, T_md5_a)>>]}

LogResults ==
    {NoResult,
     [NoResult EXCEPT !.returned = TRUE,
        !.matches = <<[target_id |-> "t1", algorithm |-> "Md5",
                       password |-> <<97>>, guesses_tried |-> 0]>>]}

\* the logger sessions on their own; call.applied: a logger is open,
\* call.arg: the sessions so far, call.out: the last log_result
LogInit ==
    /\ csv \in CsvStates
    /\ call = [applied |-> FALSE, arg |-> 0,
               out |-> [before |-> 0, targets |-> 0]]
    /\ gen = BlankGen
    /\ ret = None
    /\ produced = <<>>
    /\ orig = <<>>
    /\ sawNone = FALSE
    /\ atNone = -1
    /\ gpanic = FALSE
    /\ lastSize = 0
    /\ hcase = HashIdle
    /\ cli = CliIdle
    /\ EngineIdle

LogOpen ==
    /\ ~call.applied
    /\ call.arg < MaxSessions
    /\ csv' = LoggerNew(csv)
    /\ call' = [call EXCEPT !.applied = TRUE, !.arg = call.arg + 1,
                            !.out = [before |-> Len(csv'.rows), targets |-> 0]]
    /\ UNCHANGED <<gvars, evars, hcase, cli>>

LogWrite ==
    /\ call.applied
    /\ \E ts \in {<<>>, <<T_md5_a>>, <<T_md5_a, T_sha1_bb>>}, res \in LogResults :
          /\ Len(csv.rows) + Len(ts) <= MaxLogRows
          /\ csv' = LogResult(csv, res, ts)
          /\ call' = [call EXCEPT !.out = [before |-> Len(csv.rows),
                                           targets |-> Len(ts)]]
    /\ UNCHANGED <<gvars, evars, hcase, cli>>

\* the logger is dropped
LogClose ==
    /\ call.applied
    /\ call' = [call EXCEPT !.applied = FALSE]
    /\ UNCHANGED <<gvars, evars, hcase, cli, csv>>

LogNext == LogOpen \/ LogWrite \/ LogClose

SpecLog == LogInit /\ [][LogNext]_vars

----------------------------------------------------------------------------
(* run_cracking (cli/commands.rs) *)

\* serde: hash_algo is one of the lowercase names, exactly
SerdeAlgorithm(name) ==
    IF \E a \in Algorithms : AlgorithmToString(a) = name
    THEN [ok |-> TRUE,
          value |-> CHOOSE a \in Algorithms : AlgorithmToString(a) = name]
    ELSE [ok |-> FALSE, value |-> "none"]

\* serde_json::from_str::<Vec<Target>>: hash_hex is taken as any string
LoadTargets(manifest) ==
    IF \E i \in 1..Len(manifest) : ~SerdeAlgorithm(manifest[i].hash_algo).ok
    THEN [ok |-> FALSE, targets |-> <<>>]
    ELSE [ok |-> TRUE,
          targets |-> [i \in 1..Len(manifest) |->
              Target(manifest[i].id, SerdeAlgorithm(manifest[i].hash_algo).value,
                     manifest[i].hash_hex, manifest[i].salt)]]

\* "abcdefghijklmnopqrstuvwxyz0123456789"
DefaultCharset == Lowercase \o Digits

\* mutant: the hybrid strategy falls back to brute force
CreateGeneratorHybridAsBrute(c) ==
    CASE c.strategy = "dictionary" ->
           IF c.wordlist.some
           THEN [ok |-> TRUE, gen |-> DictionaryNew(c.wordlist.value)]
           ELSE [ok |-> FALSE, gen |-> BlankGen]
      [] c.strategy = "mask" ->
           IF c.mask.some THEN MaskNew(c.mask.value)
           ELSE [ok |-> FALSE, gen |-> BlankGen]
      [] OTHER ->
           [ok |-> TRUE,
            gen |-> BruteForceNew(IF c.charset.some THEN c.charset.value
                                  ELSE DefaultCharset, c.min_len, c.max_len)]

\* `match strategy`: the generator, or the error run_cracking returns
CreateGenerator(c) ==
    CASE c.strategy = "dictionary" ->
           IF c.wordlist.some
           THEN [ok |-> TRUE, gen |-> DictionaryNew(c.wordlist.value)]
           ELSE [ok |-> FALSE, gen |-> BlankGen]
      [] c.strategy = "mask" ->
           IF c.mask.some THEN MaskNew(c.mask.value)
           ELSE [ok |-> FALSE, gen |-> BlankGen]
      [] c.strategy = "brute" ->
           [ok |-> TRUE,
            gen |-> BruteForceNew(IF c.charset.some THEN c.charset.value
                                  ELSE DefaultCharset, c.min_len, c.max_len)]
      [] OTHER -> [ok |-> FALSE, gen |-> BlankGen]

RawTarget(t, name) ==
    [id |-> t.id, hash_algo |-> name, hash_hex |-> t.hash, salt |-> t.salt]

Manifests ==
    {<<>>,
     <<RawTarget(T_md5_a, "md5")>>,
     <<RawTarget(T_md5_a, "MD5")>>,
     <<RawTarget(T_md5_a, "md5"), RawTarget(T_badhex, "md5")>>,
     <<RawTarget(T_sha1_bb, "sha1"), RawTarget(T_md5_b, "ntlm")>>,
     <<RawTarget(T_md5_b, "md5"), RawTarget(T_sha1_bb, "sha1")>>}

\* strategy and its options
Strategies ==
    {[strategy |-> "dictionary", wordlist |-> NoOption, mask |-> NoOption,
      charset |-> NoOption, min_len |-> 1, max_len |-> 1],
     [strategy |-> "dictionary",
      wordlist |-> Given(<<<<98>>, <<>>, <<97, 32>>, <<98, 98>>>>),
      mask |-> NoOption, charset |-> NoOption, min_len |-> 1, max_len |-> 1],
     [strategy |-> "mask", wordlist |-> NoOption, mask |-> NoOption,
      charset |-> Given(<<97>>), min_len |-> 1, max_len |-> 1],
     [strategy |-> "mask", wordlist |-> NoOption, mask |-> Given(<<"a">>),
      charset |-> NoOption, min_len |-> 1, max_len |-> 1],
     [strategy |-> "mask", wordlist |-> NoOption, mask |-> Given(<<"?", "a">>),
      charset |-> NoOption, min_len |-> 1, max_len |-> 1],
     [strategy |-> "brute", wordlist |-> NoOption, mask |-> NoOption,
      charset |-> Given(<<97, 98>>), min_len |-> 1, max_len |-> 2],
     [strategy |-> "brute", wordlist |-> NoOption, mask |-> NoOption,
      charset |-> NoOption, min_len |-> 1, max_len |-> 1],
     [strategy |-> "hybrid", wordlist |-> NoOption, mask |-> NoOption,
      charset |-> NoOption, min_len |-> 1, max_len |-> 1],
     [strategy |-> "hybrid", wordlist |-> Given(<<<<97>>>>),
      mask |-> Given(<<"?", "d">>), charset |-> Given(<<97>>),
      min_len |-> 1, max_len |-> 1]}

MaxRepeat == 2
CliWorkers == 2
CliBatchSize == 2

CliInit ==
    /\ csv \in CsvStates
    /\ cli \in {[CliIdle EXCEPT !.pc = "start", !.manifest = m,
                     !.strategy = o.strategy, !.wordlist = o.wordlist,
                     !.mask = o.mask, !.charset = o.charset,
                     !.min_len = o.min_len, !.max_len = o.max_len,
                     !.repeat = r, !.log = l, !.csv0 = csv] :
                   m \in Manifests, o \in Strategies, r \in 1..MaxRepeat,
                   l \in BOOLEAN}
    /\ call = CallIdle
    /\ gen = BlankGen
    /\ ret = None
    /\ produced = <<>>
    /\ orig = <<>>
    /\ sawNone = FALSE
    /\ atNone = -1
    /\ gpanic = FALSE
    /\ lastSize = 0
    /\ hcase = HashIdle
    /\ EngineIdle

CliFail(msg) == cli' = [cli EXCEPT !.pc = "failed", !.error = msg]

\* read the manifest; no targets is an error
CliLoadTargets ==
    /\ cli.pc = "start"
    /\ LET r == LoadTargets(cli.manifest)
       IN  IF ~r.ok THEN CliFail("manifest")
           ELSE IF r.targets = <<>> THEN CliFail("no targets found in file")
           ELSE cli' = [cli EXCEPT !.pc = "generator", !.loaded = r.targets]
    /\ UNCHANGED <<gvars, evars, hcase, call, csv>>

CliCreateGenerator ==
    /\ cli.pc = "generator"
    /\ LET r == CreateGenerator(cli)
       IN  IF ~r.ok THEN CliFail("generator")
           ELSE cli' = [cli EXCEPT !.pc = "logger", !.generator = r.gen]
    /\ UNCHANGED <<gvars, evars, hcase, call, csv>>

\* `if let Some(log_path) = log`, then the repeat loop is entered
CliCreateLogger ==
    /\ cli.pc = "logger"
    /\ csv' = IF cli.log THEN LoggerNew(csv) ELSE csv
    /\ cli' = [cli EXCEPT !.pc = "engine", !.logger = cli.log, !.run = 1]
    /\ UNCHANGED <<gvars, evars, hcase, call>>

\* Engine::new with the targets and the generator of this repeat
CliEngineNew ==
    /\ cli.pc = "engine"
    /\ cli' = [cli EXCEPT !.pc = "run", !.engines = cli.engines + 1]
    /\ gen' = cli.generator
    /\ ret' = None
    /\ produced' = <<>>
    /\ orig' = <<>>
    /\ sawNone' = FALSE
    /\ atNone' = -1
    /\ gpanic' = FALSE
    /\ lastSize' = 0
    /\ targets' = cli.loaded
    /\ workers' = CliWorkers
    /\ batch_size' = CliBatchSize
    /\ stats' = StatisticsNew(Len(cli.loaded))
    /\ lock' = 0
    /\ pc' = "idle"
    /\ runs' = 0
    /\ found_ids' = {}
    /\ matches' = <<>>
    /\ order' = <<>>
    /\ bi' = 0
    /\ batch' = <<>>
    /\ tk' = <<>>
    /\ local' = <<>>
    /\ result' = NoResult
    /\ consumed' = <<>>
    /\ nbCalls' = 0
    /\ lateCall' = FALSE
    /\ active' = 0
    /\ hashesBefore' = 0
    /\ observed' = <<>>
    /\ gen0' = BlankGen
    /\ events' = <<>>
    /\ hashedFound' = FALSE
    /\ UNCHANGED <<hcase, call, csv>>

\* engine.run(...) of this repeat
CliRun ==
    /\ cli.pc = "run"
    /\ \/ runs = 0 /\ RunStart
       \/ LoopTop
       \/ BucketStep
       \/ \E i \in 1..Len(batch) : WorkerProbe(i)
       \/ \E i \in 1..Len(batch) : WorkerPush(i)
       \/ RecordMatches
       \/ UpdateStats
       \/ Callback
       \/ CallbackReturn

\* after run has returned: log_result, then the generator of the next
\* repeat, or the end
CliAfterRun ==
    /\ cli.pc = "run"
    /\ pc = "done"
    /\ result.returned
    /\ csv' = IF cli.logger THEN LogResult(csv, result, cli.loaded) ELSE csv
    /\ cli' = IF cli.run < cli.repeat
              THEN [cli EXCEPT !.pc = "engine", !.run = cli.run + 1,
                               !.generator = CreateGenerator(cli).gen]
              ELSE [cli EXCEPT !.pc = "ok"]
    /\ UNCHANGED <<gvars, evars, hcase, call>>

CliNext ==
    \/ CliLoadTargets
    \/ CliCreateGenerator
    \/ CliCreateLogger
    \/ CliEngineNew
    \/ CliRun
    \/ CliAfterRun

SpecCli == CliInit /\ [][CliNext]_vars

----------------------------------------------------------------------------
(* Properties of Engine::run *)

DistinctIds ==
    \A i, j \in 1..Len(targets) : i # j => targets[i].id # targets[j].id

AtMostOnePerTarget(ms) ==
    /\ \A i, j \in 1..Len(ms) : i # j => ms[i].target_id # ms[j].target_id
    /\ Len(ms) <= Len(targets)

\* C1: the matches of a run (while it runs and in the result returned) hold at
\* most one Match per target id, and no more Matches than there are targets.
C1_AtMostOneMatchPerTarget ==
    /\ AtMostOnePerTarget(matches)
    /\ result.returned => AtMostOnePerTarget(result.matches)

\* C1 witness: two candidates of one batch matched the same target in the
\* parallel region just recorded, and the run holds one Match for it.
C1_Witness ==
    /\ pc = "buckets"
    /\ workers >= 2
    /\ \E i, j \in DOMAIN local :
          /\ i # j
          /\ local[i] # <<>>
          /\ local[j] # <<>>
          /\ local[i][1].target_id = local[j][1].target_id
          /\ local[i][1].target_id \in found_ids
          /\ Cardinality({k \in 1..Len(matches) :
                            matches[k].target_id = local[i][1].target_id}) = 1

\* the digest of salt || password under the target's algorithm is the digest
\* the target's hash_hex decodes to
IsPreimage(t, password) ==
    /\ HexDecode(t.hash).ok
    /\ HasherHash(t.algorithm, t.salt \o password) = HexDecode(t.hash).bytes

NoPhantom(ms) ==
    \A k \in 1..Len(ms) :
        /\ \E n \in 1..Len(targets) :
              /\ targets[n].id = ms[k].target_id
              /\ targets[n].algorithm = ms[k].algorithm
              /\ IsPreimage(targets[n], ms[k].password)
        /\ \E c \in 1..Len(consumed) : consumed[c] = ms[k].password

\* C2: every Match names a target of the engine, holds a candidate the
\* generator yielded in this run, and that candidate (after the target's salt)
\* hashes to the target's expected digest.
C2_NoPhantomMatches ==
    /\ NoPhantom(matches)
    /\ (pc = "done" /\ result.returned) => NoPhantom(result.matches)

\* C2 witness: a run returned a Match for a salted target.
C2_Witness ==
    /\ pc = "done"
    /\ result.returned
    /\ \E k \in 1..Len(result.matches), n \in 1..Len(targets) :
          /\ targets[n].id = result.matches[k].target_id
          /\ targets[n].salt # <<>>

\* C3: with pairwise distinct target ids, when run has returned, every target
\* that has a pre-image among the candidates consumed has a Match.
C3_SearchComplete ==
    (pc = "done" /\ result.returned /\ DistinctIds) =>
        \A n \in 1..Len(targets) :
            (\E c \in 1..Len(consumed) : IsPreimage(targets[n], consumed[c]))
            => \E k \in 1..Len(result.matches) :
                  result.matches[k].target_id = targets[n].id

\* C3 witness: a run over two targets of one bucket returned both, found in
\* different batches.
C3_Witness ==
    /\ pc = "done"
    /\ result.returned
    /\ DistinctIds
    /\ Len(targets) = 2
    /\ Cardinality(BucketKeys(targets)) = 1
    /\ Len(result.matches) = 2
    /\ result.matches[1].guesses_tried # result.matches[2].guesses_tried

\* C4 (as claimed): next_batch is never called once every target is in the
\* found set, run leaves the loop only with every target found or on "no
\* batch", and run never fails to return (it does not panic).
C4_LoopEndsExactly ==
    /\ ~lateCall
    /\ pc # "panicked"
    /\ (pc = "done" /\ result.returned) =>
          (AllFound(found_ids, targets) \/ nbCalls > 0)

\* C5 (as claimed): the guesses_tried of the result returned by a run is the
\* sum of the lengths of the batches the generator returned during that run.
C5_GuessesAreBatchLengths ==
    (pc = "done" /\ result.returned) =>
        result.statistics.guesses_tried = Len(consumed)

\* C6 (as claimed): the engine skips solved buckets, so a batch adds to
\* hashes_computed its length times the number of buckets it hashed (stated
\* for targets with pairwise distinct ids).
C6_HashesCountActiveBuckets ==
    (pc = "callback" /\ DistinctIds) =>
        stats.hashes_computed - hashesBefore = Len(batch) * active

\* the ids of the targets that have a pre-image among the candidates
SolvableIds(cands) ==
    {targets[n].id : n \in {k \in 1..Len(targets) :
        \E c \in 1..Len(cands) : IsPreimage(targets[k], cands[c])}}

\* the candidates a run entered with generator g takes from it: batches of
\* batch_size until the candidates taken hold a pre-image for as many ids as
\* there are targets, or until there is no batch
RECURSIVE RunCandidates(_, _)
RunCandidates(g, acc) ==
    IF Cardinality(SolvableIds(acc)) >= Len(targets) THEN acc
    ELSE LET r == NextBatch(g, batch_size)
         IN  IF r.panic \/ ~r.ret.some THEN acc
             ELSE RunCandidates(r.gen, acc \o r.ret.batch)

\* the first candidate, in generator order, that is a pre-image for the id
FirstPreimage(id, cands) ==
    LET hits == {c \in 1..Len(cands) :
                    \E n \in 1..Len(targets) :
                        targets[n].id = id /\ IsPreimage(targets[n], cands[c])}
    IN  cands[CHOOSE c \in hits : \A d \in hits : c <= d]

\* what the inputs of a run fix: each id that can be recovered, with the
\* first candidate that recovers it
ExpectedMatchSet ==
    LET cands == RunCandidates(gen0, <<>>)
    IN  {<<id, FirstPreimage(id, cands)>> : id \in SolvableIds(cands)}

MatchSet(ms) == {<<ms[k].target_id, ms[k].password>> : k \in 1..Len(ms)}

\* C15 (as claimed): for any targets, the set of (target id, password) a run
\* returns is fixed by the targets, the state of the generator when the run
\* was entered and batch_size, whatever the workers' interleaving and the
\* order in which the buckets and candidates are hashed.
C15_MatchSetIsDetermined ==
    (pc = "done" /\ result.returned) =>
        MatchSet(result.matches) = ExpectedMatchSet

\* C15 (amended): for targets with pairwise distinct ids, the set of
\* (target id, password) a run returns is fixed by the targets, the state of
\* the generator when the run was entered and batch_size.
C15_MatchSetIsDeterminedDistinctIds ==
    (pc = "done" /\ result.returned /\ DistinctIds) =>
        MatchSet(result.matches) = ExpectedMatchSet

\* C15 witness: a run with two workers over two buckets returned two matches
\* found in one batch of two candidates, the bucket of the second target
\* having been hashed first.
C15_Witness ==
    /\ pc = "done"
    /\ result.returned
    /\ DistinctIds
    /\ workers = 2
    /\ batch_size = 2
    /\ Len(order) = 2
    /\ Len(result.matches) = 2
    /\ result.matches[1].guesses_tried = result.matches[2].guesses_tried
    /\ result.matches[1].target_id = targets[2].id
    /\ result.matches[2].target_id = targets[1].id

\* C16 (as claimed): with no targets a run asks the generator for no batch,
\* never calls the observer and returns no match; a run during which the
\* generator yields no batch at all returns no match, with guesses_tried = 0
\* and hashes_computed = 0.
C16_BoundaryRuns ==
    /\ targets = <<>> =>
          /\ nbCalls = 0
          /\ observed = <<>>
          /\ pc \in {"idle", "loop", "done"}
          /\ result.matches = <<>>
    /\ (pc = "done" /\ result.returned /\ consumed = <<>>) =>
          /\ result.matches = <<>>
          /\ result.statistics.guesses_tried = 0
          /\ result.statistics.hashes_computed = 0

EventCount(tag) == Cardinality({i \in 1..Len(events) : events[i] = tag})

\* what may come just before each event of the driver
EventOrder ==
    \A i \in 1..Len(events) :
        /\ events[i] = "next_batch" => (i = 1 \/ events[i - 1] = "observer")
        /\ events[i] = "hash" =>
              (i > 1 /\ events[i - 1] \in {"next_batch", "hash"})
        /\ events[i] = "stats" =>
              (i > 1 /\ events[i - 1] \in {"next_batch", "hash"})
        /\ events[i] = "observer" => (i > 1 /\ events[i - 1] = "stats")
        /\ events[i] = "return" =>
              (i = Len(events) /\ (i = 1 \/ events[i - 1] = "observer"))

\* C17: in a run the driver's events come in rounds next_batch, parallel
\* hashing (once per bucket hashed), statistics update, observer; the
\* observer has been called once per batch whenever the driver is at the top
\* of the loop or has returned, and what it is shown is the statistics as
\* updated for that batch.
C17_ObserverOncePerBatch ==
    /\ EventOrder
    /\ Len(observed) = EventCount("observer")
    /\ EventCount("observer") <= EventCount("stats")
    /\ EventCount("stats") <= EventCount("next_batch")
    /\ EventCount("next_batch") <= EventCount("observer") + 1
    /\ pc \in {"loop", "done"} =>
          EventCount("observer") = EventCount("next_batch")
    /\ pc = "observer" => observed[Len(observed)] = stats
    /\ \A k \in 2..Len(observed) :
          observed[k].guesses_tried > observed[k - 1].guesses_tried

\* C17 witness: a run has returned after three batches, the observer having
\* been called after each of them.
C17_Witness ==
    /\ pc = "done"
    /\ result.returned
    /\ EventCount("next_batch") = 3
    /\ EventCount("observer") = 3
    /\ observed[1].guesses_tried < observed[2].guesses_tried
    /\ observed[2].guesses_tried < observed[3].guesses_tried

\* no counter of b is below that of a
CountersNotBelow(a, b) ==
    /\ a.guesses_tried <= b.guesses_tried
    /\ a.hashes_computed <= b.hashes_computed
    /\ a.targets_found <= b.targets_found

\* C18: from one observer call of a run to the next, and from the last one to
\* the result returned, guesses_tried, hashes_computed and targets_found do
\* not decrease; targets_total is the number of targets given to Engine::new
\* in the statistics, in every snapshot and in the result; targets_found
\* never exceeds targets_total.
C18_CountersMonotone ==
    /\ \A k \in 2..Len(observed) :
          CountersNotBelow(observed[k - 1], observed[k])
    /\ (pc = "done" /\ result.returned /\ observed # <<>>) =>
          CountersNotBelow(observed[Len(observed)], result.statistics)
    /\ stats.targets_total = Len(targets)
    /\ \A k \in 1..Len(observed) : observed[k].targets_total = Len(targets)
    /\ result.returned => result.statistics.targets_total = Len(targets)
    /\ stats.targets_found <= stats.targets_total
    /\ \A k \in 1..Len(observed) :
          observed[k].targets_found <= observed[k].targets_total

\* C18 witness: in the second run on an engine the observer was called
\* twice, targets_found having grown between the two calls, and the run has
\* returned.
C18_Witness ==
    /\ pc = "done"
    /\ result.returned
    /\ runs = 2
    /\ Len(observed) >= 2
    /\ observed[1].targets_found < observed[2].targets_found
    /\ observed[1].hashes_computed < observed[2].hashes_computed

\* C19 (as claimed): while the observer callback executes, the statistics
\* lock is not held by the driver (the observer was handed a copy of the
\* statistics, not the guarded value).
C19_ObserverRunsUnlocked == pc = "observer" => lock # -1

\* C20 (as claimed): no worker of the parallel region ever holds the
\* statistics lock (the workers neither read nor write the counters).
C20_WorkersLeaveStatisticsAlone ==
    \A i \in 1..Len(batch) : lock # i

\* found_ids changes only when the driver records the matches of a parallel
\* region that is over, or when run is entered and starts from the empty set
FoundSetStep ==
    found_ids' # found_ids =>
        \/ /\ pc = "par"
           /\ pc' = "buckets"
           /\ \A i \in 1..Len(batch) : TaskDone(i)
           /\ found_ids \subseteq found_ids'
        \/ /\ pc \in {"idle", "done"}
           /\ pc' = "loop"
           /\ found_ids' = {}

\* C21: the found set is changed only by the driver, after a parallel region
\* has ended (the workers' steps leave it alone), and no digest is ever
\* computed for a target whose id is already in the found set.
C21_FoundTargetsNotHashed == [](~hashedFound) /\ [][FoundSetStep]_vars

\* C21 witness: in a batch after the first one, a worker has passed over a
\* target that was found earlier and is probing the next target of the
\* bucket.
C21_Witness ==
    /\ pc = "par"
    /\ Len(consumed) > Len(batch)
    /\ \E i \in 1..Len(batch) :
          /\ tk[i] > 0
          /\ tk[i] < Len(AlgoTargets)
          /\ AlgoTargets[tk[i]].id \in found_ids
          /\ AlgoTargets[tk[i] + 1].id \notin found_ids

\* C31 (as claimed): for every call of run, also a repeated one on the same
\* Engine, the targets_found of the result returned is the number of its
\* Matches and the number of ids in the found set of that run, and its
\* guesses_tried counts the candidates of the batches of that call only.
C31_StatisticsArePerRun ==
    (pc = "done" /\ result.returned) =>
        /\ result.statistics.targets_found = Len(result.matches)
        /\ result.statistics.targets_found = Cardinality(found_ids)
        /\ result.statistics.guesses_tried = Len(consumed)

\* C32: the driver does not hold the statistics lock while a parallel region
\* runs, a task that has finished its candidate does not hold it, and every
\* parallel region that is entered is left, whatever the interleaving of the
\* tasks that take the lock.
C32_ParallelRegionCompletes ==
    /\ [](pc = "par" => lock # -1)
    /\ [](pc = "par" =>
            \A i \in 1..Len(batch) : tk[i] = Len(AlgoTargets) => TaskDone(i))
    /\ ((pc = "par") ~> (pc # "par"))

\* C32 witness: with two workers, one task holds the statistics lock for a
\* match it detected while the other task has hashed a candidate that
\* matches as well and waits for the lock.
C32_Witness ==
    /\ pc = "par"
    /\ workers = 2
    /\ \E i, j \in 1..Len(batch) :
          /\ i # j
          /\ lock = i
          /\ tk[j] < Len(AlgoTargets)
          /\ TaskActive(j)
          /\ ~SkipTarget(AlgoTargets[tk[j] + 1], found_ids)
          /\ TargetMatches(AlgoTargets[tk[j] + 1],
                           ComputeHash(AlgoTargets[tk[j] + 1], batch[j]))

\* read_line has returned an error in a next_batch call on the generator: a
\* line that is no UTF-8 is among the lines read
IoErrorRaised(g) ==
    /\ g.kind = "dict"
    /\ \E i \in 1..g.pos : InvalidUtf8(g.file[i])

\* C23 (as claimed): when reading a line in next_batch has raised an I/O
\* error, run does not return a successful CrackingResult (it fails with
\* GeneratorFailed).
C23_IoErrorIsPropagated ==
    (pc = "done" /\ result.returned) => ~IoErrorRaised(gen)

\* the place (from 1) of the first candidate of the run equal to password
FirstIndex(password, cands) ==
    CHOOSE c \in 1..Len(cands) :
        /\ cands[c] = password
        /\ \A d \in 1..(c - 1) : cands[d] # password

\* C30 (as claimed): the guesses_tried of a Match is the number of
\* candidates of the batches of this run completed before the batch that
\* held the matching candidate (0 in the first batch), so it is below the
\* place of the matching candidate among the candidates of the run, and it
\* is at most the guesses_tried of the result returned.
C30_MatchGuessesAreEarlierBatches ==
    /\ pc = "par" =>
          \A i \in 1..Len(local) : \A k \in 1..Len(local[i]) :
              local[i][k].guesses_tried = Len(consumed) - Len(batch)
    /\ \A k \in 1..Len(matches) :
          matches[k].guesses_tried < FirstIndex(matches[k].password, consumed)
    /\ (pc = "done" /\ result.returned) =>
          \A k \in 1..Len(result.matches) :
              result.matches[k].guesses_tried <= result.statistics.guesses_tried

----------------------------------------------------------------------------
(* Properties of run_cracking and of the benchmark log *)

KnownNames == {"blitzhash", "md5", "sha1", "sha256", "md4"}

\* an element of the manifest names no algorithm, or its hash_hex is of odd
\* length or holds a character that is no hex digit
BadElement(e) == e.hash_algo \notin KnownNames \/ ~HexDecode(e.hash_hex).ok

\* C22 (as claimed): when an element of the manifest has an unknown
\* algorithm string or a hash_hex that does not decode, run_cracking fails at
\* the load and constructs no engine; no Target whose digest does not decode
\* is ever among the targets of an engine.
C22_LoadRejectsBadTargets ==
    /\ (cli.pc # "none"
        /\ \E i \in 1..Len(cli.manifest) : BadElement(cli.manifest[i])) =>
          /\ cli.pc \in {"start", "failed"}
          /\ cli.engines = 0
    /\ \A n \in 1..Len(targets) : HexDecode(targets[n].hash).ok

\* the configuration errors: hybrid, dictionary without a wordlist, mask
\* without a mask
IsConfigError(c) ==
    \/ c.strategy = "hybrid"
    \/ c.strategy = "dictionary" /\ ~c.wordlist.some
    \/ c.strategy = "mask" /\ ~c.mask.some

\* C28: with the hybrid strategy, the dictionary strategy without a
\* wordlist or the mask strategy without a mask, run_cracking never gets
\* past the creation of the generator, where it returns an error: no Engine
\* is constructed, no batch is pulled, and the benchmark file is as it was.
C28_ConfigErrorsBeforeEngine ==
    (cli.pc # "none" /\ IsConfigError(cli)) =>
        /\ cli.pc \in {"start", "generator", "failed"}
        /\ cli.engines = 0
        /\ ~cli.logger
        /\ pc = "idle"
        /\ runs = 0
        /\ nbCalls = 0
        /\ produced = <<>>
        /\ csv = cli.csv0

\* C28 witness: run_cracking has failed at the creation of the generator
\* for the hybrid strategy, with targets loaded, a wordlist, a mask and a
\* log path given.
C28_Witness ==
    /\ cli.pc = "failed"
    /\ cli.error = "generator"
    /\ cli.strategy = "hybrid"
    /\ cli.loaded # <<>>
    /\ cli.wordlist.some
    /\ cli.mask.some
    /\ cli.log
    /\ cli.engines = 0

\* C29 (as claimed): once a logger has been created on the path, the file
\* starts with the header, holds the header once, and the last log_result
\* appended one record per target.
C29_HeaderOnce ==
    call.arg > 0 =>
        /\ csv.exists
        /\ csv.rows # <<>>
        /\ csv.rows[1] = HeaderRow
        /\ Cardinality({i \in 1..Len(csv.rows) : csv.rows[i] = HeaderRow}) = 1
        /\ Len(csv.rows) = call.out.before + call.out.targets

\* the part of C29 that holds: every log_result appends one record per
\* target, and a file that was absent or started with the header starts
\* with the header and holds it once
C29_HeaderOnceUnlessEmpty ==
    call.arg > 0 =>
        /\ csv.exists
        /\ Len(csv.rows) = call.out.before + call.out.targets
        /\ (csv.rows # <<>> /\ csv.rows[1] = HeaderRow) =>
              Cardinality({i \in 1..Len(csv.rows) : csv.rows[i] = HeaderRow}) = 1

----------------------------------------------------------------------------
(* Properties of the hashers *)

\* C14: for every hasher of create_hasher, every password p and salt s,
\* hash_with_salt(p, s) is hash(s || p), and with the empty salt it is
\* hash(p).
C14_SaltIsPrepended ==
    hcase.applied =>
        /\ hcase.hash_with_salt = hcase.hash_joined
        /\ hcase.salt = <<>> => hcase.hash_with_salt = hcase.hash

\* C14 witness: the Md4 hasher was applied to a password and a salt that are
\* both non-empty and differ, and the salt changed the digest.
C14_Witness ==
    /\ hcase.applied
    /\ hcase.algorithm = "Md4"
    /\ hcase.password # <<>>
    /\ hcase.salt # <<>>
    /\ hcase.salt # hcase.password
    /\ hcase.hash_with_salt # hcase.hash

----------------------------------------------------------------------------
(* Properties of the generators *)

\* C7 (as claimed): once next_batch has returned None, every later call
\* returns None until reset is called.
C7_NoneIsSticky == [][(sawNone /\ sawNone') => ~ret'.some]_vars

\* the trimmed form of a line, from the first to the last byte that is no
\* whitespace
ExpectedWord(line) ==
    LET nz == {i \in 1..Len(line) : line[i] \notin WhiteSpace}
    IN  IF nz = {} THEN <<>>
        ELSE SubSeq(line, CHOOSE i \in nz : \A j \in nz : i <= j,
                          CHOOSE i \in nz : \A j \in nz : i >= j)

ExpectedWords(file) ==
    SelectSeq([i \in 1..Len(file) |-> ExpectedWord(file[i])],
              LAMBDA w : w # <<>>)

\* C8 (as claimed): when the dictionary generator first returns None, it is
\* at end of file and the batches so far are the non-blank lines, trimmed, in
\* file order.
C8_DictionaryYieldsAllLines ==
    (gen.kind = "dict" /\ atNone # -1) =>
        /\ SubSeq(produced, 1, atNone) = ExpectedWords(gen.file)
        /\ atNone = Len(produced) => gen.pos = Len(gen.file)

\* C9 (as claimed): a mask or brute-force generator returns, up to its first
\* None, exactly estimated_size candidates (so next_batch does not fail).
C9_CountIsEstimatedSize ==
    gen.kind \in {"mask", "brute"} =>
        /\ ~gpanic
        /\ atNone # -1 => atNone = EstimatedSize(gen)

TupleAt(sizes, n) ==
    [i \in 1..Len(sizes) |->
        (n \div SeqProduct(SubSeq(sizes, i + 1, Len(sizes)))) % sizes[i]]

PatternSizes(pattern) == [i \in 1..Len(pattern) |-> Len(pattern[i])]

\* candidate number n (from 0) of the Cartesian product of the CharSets
MaskAt(pattern, n) ==
    LET t == TupleAt(PatternSizes(pattern), n)
    IN  [i \in 1..Len(pattern) |-> pattern[i][t[i] + 1]]

\* C11: the candidates a mask generator has returned are, in order, the
\* first elements of the Cartesian product of its CharSets in lexicographic
\* order (rightmost position fastest); when it returns None every index
\* tuple has been returned once; ?d?d starts with 00, 01, 02, 03, 04.
C11_MaskOdometerOrder ==
    gen.kind = "mask" =>
        /\ Len(produced) <= SeqProduct(PatternSizes(gen.pattern))
        /\ \A n \in 1..Len(produced) :
              produced[n] = MaskAt(gen.pattern, n - 1)
        /\ sawNone =>
              Len(produced) = SeqProduct(PatternSizes(gen.pattern))
        /\ (gen.pattern = <<Digits, Digits>> /\ Len(produced) >= 5) =>
              SubSeq(produced, 1, 5) =
                  <<<<48, 48>>, <<48, 49>>, <<48, 50>>, <<48, 51>>, <<48, 52>>>>

\* C11 witness: the ?d?d generator has gone past a carry (09 is followed by
\* 10) in the middle of a batch.
C11_Witness ==
    /\ gen.kind = "mask"
    /\ gen.pattern = <<Digits, Digits>>
    /\ Len(produced) = 11
    /\ produced[10] = <<48, 57>>
    /\ produced[11] = <<49, 48>>
    /\ ret.some
    /\ Len(ret.batch) = 2
    /\ ret.batch[2] = <<49, 48>>

\* the strings of length len over the charset number len ^ |charset|
BruteCount(charset, lo, hi) ==
    LET S[l \in (lo - 1)..hi] ==
            IF l < lo THEN 0 ELSE S[l - 1] + Pow(Len(charset), l)
    IN  IF lo > hi THEN 0 ELSE S[hi]

\* candidate number n (from 0) of the enumeration by length, then odometer
RECURSIVE BruteAt(_, _, _)
BruteAt(charset, len, n) ==
    IF n < Pow(Len(charset), len)
    THEN LET t == TupleAt([i \in 1..len |-> Len(charset)], n)
         IN  [i \in 1..len |-> charset[t[i] + 1]]
    ELSE BruteAt(charset, len + 1, n - Pow(Len(charset), len))

\* C12 (as claimed): for min_len <= max_len the candidates a brute-force
\* generator has returned are, in order, the first strings of the
\* enumeration by length (min_len first) and odometer order within a length,
\* and when the generator has stopped (None, or a failed call) all of the
\* strings of the lengths min_len..max_len have been returned.
C12_BruteForceOrder ==
    (gen.kind = "brute" /\ gen.min_length <= gen.max_length) =>
        LET total == BruteCount(gen.charset, gen.min_length, gen.max_length)
        IN  /\ Len(produced) <= total
            /\ \A n \in 1..Len(produced) :
                  produced[n] = BruteAt(gen.charset, gen.min_length, n - 1)
            /\ (sawNone \/ gpanic) => Len(produced) = total

\* a batch returned for a requested size >= 1 is non-empty and holds at most
\* that many candidates
BatchWithinSize ==
    (lastSize > 0 /\ ret.some) =>
        (Len(ret.batch) >= 1 /\ Len(ret.batch) <= lastSize)

\* the call after one that returned fewer candidates than it was asked for
\* returns None
ShortBatchIsLast ==
    (/\ lastSize > 0
     /\ ret.some
     /\ Len(ret.batch) < lastSize
     /\ lastSize' > 0
     /\ ~gpanic') => ~ret'.some

\* C13 (as claimed): every batch a generator returns for a requested size
\* >= 1 is non-empty and no longer than the size, and only the last batch
\* before None is shorter than the size: the call that follows a short batch
\* returns None.
C13_OnlyFinalBatchShort == [](BatchWithinSize) /\ [][ShortBatchIsLast]_vars

\* one call of next_batch(1) in a traversal that stops at the first call
\* that returns None or fails
OneCall(st) ==
    IF st.stopped THEN st
    ELSE LET r == NextBatch(st.gen, 1)
         IN  IF r.panic \/ ~r.ret.some
             THEN [st EXCEPT !.stopped = TRUE]
             ELSE [st EXCEPT !.gen = r.gen, !.out = st.out \o r.ret.batch]

\* n calls of next_batch(1), one after the other
RECURSIVE Calls(_, _)
Calls(st, n) ==
    IF n = 0 THEN st
    ELSE IF n = 1 THEN OneCall(st)
    ELSE LET half == Calls(st, n \div 2)
         IN  IF half.stopped THEN half ELSE Calls(half, n - n \div 2)

\* the candidates next_batch(1) returns, call after call, from generator
\* state g up to the first call that returns None or fails (it comes within
\* estimated_size + 1 calls)
OneByOne(g) ==
    Calls([gen |-> g, out |-> <<>>, stopped |-> FALSE], EstimatedSize(g) + 1)

IsPrefix(a, b) == Len(a) <= Len(b) /\ a = SubSeq(b, 1, Len(a))

\* C33 (as claimed): for a mask or brute-force generator the batches
\* returned, for any sizes >= 1 asked for, are cuts of the candidate sequence
\* that batches of one return: the concatenation so far is a prefix of it,
\* and it is all of it once the traversal has ended (None, or a failed call).
C33_BatchSizeIndependence ==
    gen.kind \in {"mask", "brute"} =>
        LET all == OneByOne(Reset(gen))
        IN  /\ all.stopped
            /\ atNone = -1 => IsPrefix(produced, all.out)
            /\ atNone # -1 => SubSeq(produced, 1, atNone) = all.out
            /\ gpanic => produced = all.out

\* the part of C33 that holds: as above for every mask generator and every
\* brute-force generator over a charset that is not empty
C33_BatchSizeIndependenceNonEmptyCharset ==
    (gen.kind = "mask" \/ (gen.kind = "brute" /\ gen.charset # <<>>)) =>
        LET all == OneByOne(Reset(gen))
        IN  /\ all.stopped
            /\ ~gpanic
            /\ atNone = -1 => IsPrefix(produced, all.out)
            /\ atNone # -1 => SubSeq(produced, 1, atNone) = all.out

\* C27: a brute-force generator with min_len > max_len never returns a
\* candidate: every next_batch call, for any size, returns None (and none
\* fails), the generator is exhausted after it, and estimated_size is 0.
C27_EmptyRangeIsExhausted ==
    (gen.kind = "brute" /\ gen.min_length > gen.max_length) =>
        /\ produced = <<>>
        /\ ~ret.some
        /\ ~gpanic
        /\ EstimatedSize(gen) = 0
        /\ lastSize > 0 => (gen.exhausted /\ sawNone)

\* C27 witness: a generator over "ab" with min_len 2 and max_len 1 has been
\* asked for a batch of two and has returned None.
C27_Witness ==
    /\ gen.kind = "brute"
    /\ gen.charset = <<97, 98>>
    /\ gen.min_length = 2
    /\ gen.max_length = 1
    /\ lastSize = 2
    /\ sawNone
    /\ gen.exhausted
    /\ produced = <<>>

----------------------------------------------------------------------------
(* Properties of estimated_size at full width *)

RECURSIVE ExactProduct(_)
ExactProduct(sizes) ==
    IF sizes = <<>> THEN <<1>>
    ELSE BigMulSmall(ExactProduct(Tail(sizes)), Head(sizes))

RECURSIVE ExactPowerSum(_, _, _, _)
ExactPowerSum(base, len, max, total) ==
    IF len > max THEN total
    ELSE ExactPowerSum(base, len + 1, max, BigAdd(total, BigPow(base, len)))

\* the keyspace size of a generator, exactly
ExactKeyspace(g) ==
    IF g.kind = "mask"
    THEN ExactProduct([i \in 1..Len(g.pattern) |-> Len(g.pattern[i])])
    ELSE ExactPowerSum(Len(g.charset), g.min_length, g.max_length, <<>>)

\* C26: estimated_size of a mask or brute-force generator returns the exact
\* keyspace size when it fits in a u64 and u64::MAX otherwise; it never
\* panics and never returns a wrapped value.
C26_EstimatedSizeSaturates ==
    call.applied =>
        /\ ~call.out.panic
        /\ call.out.value = Saturate(ExactKeyspace(call.arg))

\* the part of C26 that holds: the brute-force sum saturates
C26_BruteForceSaturates ==
    (call.applied /\ call.arg.kind = "brute") =>
        /\ ~call.out.panic
        /\ call.out.value = Saturate(ExactKeyspace(call.arg))

\* a brute-force keyspace beyond 2^64 was estimated as u64::MAX
C26_BruteWitness ==
    /\ call.applied
    /\ call.arg.kind = "brute"
    /\ ~FitsU64(ExactKeyspace(call.arg))
    /\ call.out.value = U64Max

----------------------------------------------------------------------------
(* Properties of the Algorithm names *)

\* every spelling of the name of a parses to a, and no two tags have the
\* same name
NamesRoundTrip ==
    /\ \A a \in Algorithms :
          call.arg \in CaseVariants(AlgorithmChars(a)) =>
              (call.out.ok /\ call.out.value = a)
    /\ \A a, b \in Algorithms :
          a # b => /\ AlgorithmChars(a) # AlgorithmChars(b)
                   /\ AlgorithmToString(a) # AlgorithmToString(b)

IsAlgorithmName(chars) ==
    \E a \in Algorithms : chars \in CaseVariants(AlgorithmChars(a))

\* C25 (as claimed): every spelling, in any letter case, of the name a tag
\* serialises to parses to that tag, distinct tags have distinct names, and
\* parsing a name that is none of the five names fails.
C25_NamesRoundTripOnly ==
    call.applied =>
        /\ NamesRoundTrip
        /\ ~IsAlgorithmName(call.arg) => ~call.out.ok

\* C25 (amended): as above, but besides the five names the alias "blitz"
\* parses, in any letter case, to BlitzHash; every other name fails.
C25_NamesRoundTripWithAlias ==
    call.applied =>
        /\ NamesRoundTrip
        /\ call.arg \in CaseVariants(<<"b", "l", "i", "t", "z">>) =>
              (call.out.ok /\ call.out.value = "BlitzHash")
        /\ (/\ ~IsAlgorithmName(call.arg)
            /\ call.arg \notin CaseVariants(<<"b", "l", "i", "t", "z">>))
           => ~call.out.ok

\* C25 witness: the name of Sha256 written in mixed case was parsed and gave
\* Sha256.
C25_Witness ==
    /\ call.applied
    /\ call.arg = <<"S", "h", "A", "2", "5", "6">>
    /\ call.out.ok
    /\ call.out.value = "Sha256"

----------------------------------------------------------------------------
(* Properties of MaskGenerator::new *)

\* mask := item*, item := '?' class | literal, class := l | u | d | s,
\* literal := any character but '?': whether what is left of the mask from
\* character i + 1 on is a mask, and the CharSets of its items
RECURSIVE GrammarItems(_, _)
GrammarItems(chars, i) ==
    IF i >= Len(chars) THEN [ok |-> TRUE, items |-> <<>>]
    ELSE IF chars[i + 1] # "?"
         THEN LET rest == GrammarItems(chars, i + 1)
              IN  [ok |-> rest.ok,
                   items |-> <<<<CharByte(chars[i + 1])>>>> \o rest.items]
    ELSE IF i + 2 > Len(chars) \/ chars[i + 2] \notin {"l", "u", "d", "s"}
         THEN [ok |-> FALSE, items |-> <<>>]
    ELSE LET rest == GrammarItems(chars, i + 2)
         IN  [ok |-> rest.ok,
              items |-> <<ClassCharSet(chars[i + 2])>> \o rest.items]

\* C24 (as claimed): MaskGenerator::new accepts a mask exactly when it
\* conforms to the grammar (a '?' not followed by l, u, d or s is an error,
\* also at the end of the mask), and the pattern of an accepted mask has one
\* class CharSet per ?l ?u ?d ?s and one single-byte CharSet per literal.
C24_MaskGrammar ==
    call.applied =>
        LET g == GrammarItems(call.arg, 0)
        IN  /\ call.out.ok <=> g.ok
            /\ call.out.ok => call.out.gen.pattern = g.items

====
